---- MODULE Spec2Model ----
(***************************************************************************)
(* prop-scope: withProps(source, overwrites, callback) temporarily         *)
(* overwrites properties of `source`, runs `callback` with the map of the  *)
(* original values and writes the original values back in a finally block. *)
(*                                                                         *)
(* The model follows src/src/index.ts.  A JavaScript object is a function   *)
(* from property names to a value or ABSENT (no own property); reads and    *)
(* the `in` operator fall back to Object.prototype.                         *)
(***************************************************************************)
EXTENDS Naturals, Sequences, FiniteSets

VARIABLES source, readonly, stack, result, ev, nwork, nsteps,
          realm, held, task, history

vars == <<source, readonly, stack, result, ev, nwork, nsteps,
          realm, held, task, history>>

\* the host environment of a call: the symbols of the realm, the symbols the
\* program holds, the asynchronous unit of work a callback has started, and
\* what the program has seen of its earlier calls
hostvars == <<realm, held, task, history>>

----------------------------------------------------------------------------
(* Bounds of the exploration.                                              *)

\* size of one call tree: every withProps call counts one, plus the number of
\* properties its overwrite set names
MaxWork == 4
\* number of statements (property writes, deletes, freezes) the callbacks
\* of one call tree run on the target
MaxSteps == 1
\* number of symbols the program creates besides those of the module
MaxSymbols == 2
\* number of withProps calls the program makes one after the other
MaxCalls == 2

----------------------------------------------------------------------------
(* JavaScript values.                                                      *)

Val(t, d) == [type |-> t, desc |-> d]

UNDEFINED == Val("undefined", "")
NULL      == Val("null", "")
V1        == Val("string", "v1")
V2        == Val("string", "v2")
CBV       == Val("string", "cb")
\* the function every plain object inherits as its toString
PROTOFN   == Val("function", "Object.prototype.toString")

\* a symbol has an identity of its own, whatever its description: the realm
\* counts the symbols created so far and numbers each new one
SymbolValue(id, description) ==
  [type |-> "symbol", desc |-> description, id |-> id]

\* descriptions and registry keys in use
SymbolNames == {"__ignore__", "__remember__", "Ignore"}

\* no symbol is registered under a key
NoSymbol == Val("none", "")

\* a realm in which no symbol has been created: count is the number of
\* symbols created, registry the global symbol registry
EmptyRealm == [count |-> 0, registry |-> [k \in SymbolNames |-> NoSymbol]]

\* Symbol.for(key): the symbol registered under key, created and registered
\* on first use
SymbolFor(rl, key) ==
  IF rl.registry[key] # NoSymbol
  THEN [realm |-> rl, value |-> rl.registry[key]]
  ELSE LET s == SymbolValue(rl.count + 1, key)
       IN [realm |-> [count |-> rl.count + 1,
                       registry |-> [rl.registry EXCEPT ![key] = s]],
           value |-> s]

\* the symbol is taken from the global registry (Symbol.for(description))
SymbolFromRegistry(rl, description) == SymbolFor(rl, description)

\* Symbol(description): a new symbol, in no registry
Symbol(rl, description) ==
  [realm |-> [rl EXCEPT !.count = @ + 1],
   value |-> SymbolValue(rl.count + 1, description)]

\* the module is evaluated once, creating its two markers
IgnoreCreated   == Symbol(EmptyRealm, "__ignore__")
RememberCreated == Symbol(IgnoreCreated.realm, "__remember__")
ModuleRealm     == RememberCreated.realm

\* export const IGNORE = Symbol("__ignore__")
IGNORE    == IgnoreCreated.value
\* export const REMEMBER = Symbol("__remember__")
REMEMBER  == RememberCreated.value

\* no own property of that name (not a JavaScript value)
ABSENT    == Val("absent", "")

\* property names; "toString" is also a property of Object.prototype
Keys      == {"a", "toString"}
ProtoKeys == {"toString"}

\* what the target object may hold initially under name k
SourceValues(k) ==
  IF k \in ProtoKeys THEN {ABSENT, V1} ELSE {ABSENT, UNDEFINED, NULL, V1}
\* what an overwrite set may propose for name k
OverwriteValues(k) ==
  IF k \in ProtoKeys THEN {IGNORE, V2}
  ELSE {IGNORE, REMEMBER, UNDEFINED, NULL, V2}
\* what callbacks return and throw
Results == {"r1", "r2"}
\* what an async callback returns: a promise that is still pending
Promise == "promise"
Errors  == {"E1", "E2"}
TypeError == "TypeError"

----------------------------------------------------------------------------
(* Objects.                                                                *)

EmptyObject == [k \in Keys |-> ABSENT]

\* obj[k]: an own property, else the prototype's, else undefined
Get(obj, k) ==
  IF obj[k] # ABSENT THEN obj[k]
  ELSE IF k \in ProtoKeys THEN PROTOFN ELSE UNDEFINED

\* k in obj: own or inherited
HasProperty(obj, k) == obj[k] # ABSENT \/ k \in ProtoKeys

\* own property names
OwnKeys(obj) == {k \in Keys : obj[k] # ABSENT}

\* obj[k] = v on an object whose property k accepts the write
Put(obj, k, v) == [obj EXCEPT ![k] = v]

\* delete obj[k]
Delete(obj, k) == [obj EXCEPT ![k] = ABSENT]

----------------------------------------------------------------------------
(* Overwrite sets: a sequence of <<key, value>> pairs with distinct keys,  *)
(* in insertion order.                                                     *)

RECURSIVE DistinctSeqs(_, _)
DistinctSeqs(S, n) ==
  IF n = 0 THEN {<<>>}
  ELSE {<<>>} \cup
       UNION {{<<k>> \o s : s \in DistinctSeqs(S \ {k}, n - 1)} : k \in S}

RECURSIVE Assignments(_)
Assignments(ks) ==
  IF ks = <<>> THEN {<<>>}
  ELSE {<<<<ks[1], v>>>> \o rest :
          v \in OverwriteValues(ks[1]), rest \in Assignments(Tail(ks))}

Overwrites == UNION {Assignments(ks) : ks \in DistinctSeqs(Keys, Cardinality(Keys))}

\* the names of the own properties of w
KeySet(w) == {w[i][1] : i \in 1..Len(w)}

\* a loop over every property name there is, not only those of w
ObjectKeysOfEverything(w) ==
  CHOOSE ks \in DistinctSeqs(Keys, Cardinality(Keys)) : Len(ks) = Cardinality(Keys)

\* Object.keys(overwrites)
ObjectKeys(w) == [i \in 1..Len(w) |-> w[i][1]]

\* overwrites[key]: undefined for a name w does not have
Lookup(w, k) ==
  IF k \in KeySet(w) THEN w[CHOOSE i \in 1..Len(w) : w[i][1] = k][2]
  ELSE UNDEFINED

----------------------------------------------------------------------------
(* withProps, lines 61-74: the overwrite phase.                            *)
(* st = [src, orig, threw, written]: the target object, originalValues,    *)
(* whether a write threw, and the keys of the target written so far.       *)

\* a write source[key] = v throws when the property rejects writes
WriteThrows(key, ro) == key \in ro

\* the REMEMBER branch is missing
IsRememberNever(value) == FALSE

\* value === REMEMBER
IsRemember(value) == value = REMEMBER

\* null and undefined are skipped like IGNORE (value != null)
IsNotIgnoreNorNullish(value) == value # IGNORE /\ value \notin {NULL, UNDEFINED}

\* value !== IGNORE
IsNotIgnore(value) == value # IGNORE

\* the original value is recorded after the overwrite instead of before it
OverwriteStepRecordsAfter(st, key, value, ro) ==
  IF IsRemember(value)
  THEN [st EXCEPT !.orig = Put(@, key, Get(st.src, key))]
  ELSE IF IsNotIgnore(value)
  THEN IF WriteThrows(key, ro)
       THEN [st EXCEPT !.threw = TRUE]
       ELSE [st EXCEPT !.orig = Put(@, key, value),
                       !.src = Put(@, key, value),
                       !.written = @ \cup {key}]
  ELSE st

\* only a property the target already has is overwritten (if (key in source))
OverwriteStepOnlyExisting(st, key, value, ro) ==
  IF IsRemember(value)
  THEN [st EXCEPT !.orig = Put(@, key, Get(st.src, key))]
  ELSE IF IsNotIgnore(value)
  THEN IF ~HasProperty(st.src, key)
       THEN [st EXCEPT !.orig = Put(@, key, Get(st.src, key))]
       ELSE IF WriteThrows(key, ro)
       THEN [st EXCEPT !.orig = Put(@, key, Get(st.src, key)), !.threw = TRUE]
       ELSE [st EXCEPT !.orig = Put(@, key, Get(st.src, key)),
                       !.src = Put(@, key, value),
                       !.written = @ \cup {key}]
  ELSE st

\* one iteration of the for loop of lines 63-74
OverwriteStep(st, key, value, ro) ==
  IF IsRemember(value)
  THEN [st EXCEPT !.orig = Put(@, key, Get(st.src, key))]
  ELSE IF IsNotIgnore(value)
  THEN IF WriteThrows(key, ro)
       THEN [st EXCEPT !.orig = Put(@, key, Get(st.src, key)), !.threw = TRUE]
       ELSE [st EXCEPT !.orig = Put(@, key, Get(st.src, key)),
                       !.src = Put(@, key, value),
                       !.written = @ \cup {key}]
  ELSE st

RECURSIVE OverwriteLoop(_, _, _, _)
OverwriteLoop(w, i, ro, st) ==
  IF i > Len(ObjectKeys(w)) \/ st.threw THEN st
  ELSE LET key == ObjectKeys(w)[i]
       IN OverwriteLoop(w, i + 1, ro, OverwriteStep(st, key, Lookup(w, key), ro))

----------------------------------------------------------------------------
(* withProps, lines 78-84: the finally block.                              *)

\* key in originalValues
InOriginalValues(orig, key) == HasProperty(orig, key)

\* a snapshot value of undefined is not written back
\* (if (originalValues[key] !== undefined))
RestoreStepSkipsUndefined(st, key, ro) ==
  IF HasProperty(st.orig, key) /\ Get(st.orig, key) # UNDEFINED
  THEN IF WriteThrows(key, ro)
       THEN [st EXCEPT !.threw = TRUE]
       ELSE [st EXCEPT !.src = Put(@, key, Get(st.orig, key)),
                       !.written = @ \cup {key}]
  ELSE st

\* only a property the target still has is written back
\* (if (key in originalValues && key in source))
RestoreStepOnlyExisting(st, key, ro) ==
  IF InOriginalValues(st.orig, key) /\ HasProperty(st.src, key)
  THEN IF WriteThrows(key, ro)
       THEN [st EXCEPT !.threw = TRUE]
       ELSE [st EXCEPT !.src = Put(@, key, Get(st.orig, key)),
                       !.written = @ \cup {key}]
  ELSE st

\* one iteration of the for loop of lines 79-83
RestoreStep(st, key, ro) ==
  IF InOriginalValues(st.orig, key)
  THEN IF WriteThrows(key, ro)
       THEN [st EXCEPT !.threw = TRUE]
       ELSE [st EXCEPT !.src = Put(@, key, Get(st.orig, key)),
                       !.written = @ \cup {key}]
  ELSE st

RECURSIVE RestoreLoop(_, _, _, _)
RestoreLoop(w, i, ro, st) ==
  IF i > Len(ObjectKeys(w)) \/ st.threw THEN st
  ELSE RestoreLoop(w, i + 1, ro, RestoreStep(st, ObjectKeys(w)[i], ro))

----------------------------------------------------------------------------
(* Completions and call frames.                                            *)

NoOutcome     == [kind |-> "none", val |-> ""]
Returned(r)   == [kind |-> "return", val |-> r]
Thrown(e)     == [kind |-> "throw", val |-> e]

\* one activation of withProps whose callback has been invoked.  pre (the
\* target when withProps was called), handed (the snapshot as passed to the
\* callback), written (the properties withProps has assigned), touched (the
\* properties callbacks have assigned or deleted since) and deleted (those a
\* callback has deleted and none has assigned since) only record history.
Frame(w, orig, pre, written) ==
  [overwrites |-> w, originalValues |-> orig, phase |-> "callback",
   outcome |-> NoOutcome, pre |-> pre, handed |-> orig, written |-> written,
   touched |-> {}, deleted |-> {}]

Top == stack[Len(stack)]
Depth == Len(stack)

\* the last step taken.  op: "begin" (a callback has just been invoked),
\* "exit" (a withProps call has just completed), "overwrite-threw" (a call
\* failed before its callback), "callback" (a statement of a callback).
\* completion is how the callback completed, outcome what the caller of
\* withProps observes, failed whether a write of the finally block threw.
Event(op, d, f, out, failed, written) ==
  [op |-> op, depth |-> d, overwrites |-> f.overwrites, pre |-> f.pre,
   handed |-> f.handed, touched |-> f.touched, deleted |-> f.deleted,
   completion |-> f.outcome, outcome |-> out, failed |-> failed,
   written |-> written]

NoFrame == Frame(<<>>, EmptyObject, EmptyObject, {})

\* the asynchronous unit of work of a callback: none, or the one started by
\* the callback of the activation at `depth`, running or stopped
NoTask == [state |-> "none", depth |-> 0]

\* the calls the program has completed so far: their number, the target
\* before the first of them, the keys their overwrite sets named, those
\* they marked IGNORE, and the
\* keys their callbacks assigned or deleted without the call recording them
NoHistory ==
  [calls |-> 0, first |-> EmptyObject, named |-> {}, ignored |-> {},
   stray |-> {}]

CallbackEvent == Event("callback", Depth, NoFrame, NoOutcome, FALSE, {})

\* the completion `out` of an activation reaches its caller: the program that
\* called the outermost withProps, or the enclosing callback, which does not
\* catch and so completes with the same throw
Deliver(rest, out) ==
  IF rest = <<>>
  THEN /\ stack' = <<>>
       /\ result' = out
  ELSE /\ result' = result
       /\ stack' = IF out.kind = "throw"
                   THEN [rest EXCEPT ![Len(rest)].phase = "finally",
                                     ![Len(rest)].outcome = out]
                   ELSE rest

----------------------------------------------------------------------------
(* The state machine.                                                      *)

Init ==
  /\ source \in {o \in [Keys -> {ABSENT, UNDEFINED, NULL, V1}] :
                   \A k \in Keys : o[k] \in SourceValues(k)}
  /\ readonly = {}
  /\ stack = <<>>
  /\ result = NoOutcome
  /\ ev = Event("init", 0, NoFrame, NoOutcome, FALSE, {})
  /\ nwork = 0
  /\ nsteps = 0
  /\ realm = ModuleRealm
  /\ held = {}
  /\ task = NoTask
  /\ history = NoHistory

\* withProps(source, w, callback) is called, by the program or by a running
\* callback: lines 61-74 run, and line 77 invokes the callback
Call(w) ==
  /\ nwork + 1 + Len(w) <= MaxWork
  /\ nwork' = nwork + 1 + Len(w)
  /\ IF stack = <<>> THEN result.kind = "none" ELSE Top.phase = "callback"
  /\ LET st == OverwriteLoop(w, 1, readonly,
                   [src |-> source, orig |-> EmptyObject, threw |-> FALSE,
                    written |-> {}])
         f  == Frame(w, st.orig, source, st.written)
     IN /\ source' = st.src
        /\ IF st.threw
           THEN /\ Deliver(stack, Thrown(TypeError))
                /\ ev' = Event("overwrite-threw", Depth + 1, f,
                                Thrown(TypeError), FALSE, st.written)
           ELSE /\ stack' = Append(stack, f)
                /\ result' = result
                /\ ev' = Event("begin", Depth + 1, f, NoOutcome, FALSE,
                                st.written)
  /\ UNCHANGED <<readonly, nsteps, hostvars>>

\* every activation on the stack notes that a callback assigned property k
Touch(k) ==
  [i \in 1..Len(stack) |-> [stack[i] EXCEPT !.touched = @ \cup {k},
                                            !.deleted = @ \ {k}]]

\* every activation on the stack notes that a callback deleted property k
TouchDeleted(k) ==
  [i \in 1..Len(stack) |-> [stack[i] EXCEPT !.touched = @ \cup {k},
                                            !.deleted = @ \cup {k}]]

\* the running callback assigns a property of the target
CallbackWrite(k, v) ==
  /\ stack # <<>> /\ Top.phase = "callback"
  /\ nsteps < MaxSteps
  /\ nsteps' = nsteps + 1
  /\ k \notin readonly
  /\ source[k] # v
  /\ source' = Put(source, k, v)
  /\ stack' = Touch(k)
  /\ ev' = CallbackEvent
  /\ UNCHANGED <<readonly, result, nwork, hostvars>>

\* the running callback deletes a property of the target
CallbackDelete(k) ==
  /\ stack # <<>> /\ Top.phase = "callback"
  /\ nsteps < MaxSteps
  /\ nsteps' = nsteps + 1
  /\ k \notin readonly
  /\ source[k] # ABSENT
  /\ source' = Delete(source, k)
  /\ stack' = TouchDeleted(k)
  /\ ev' = CallbackEvent
  /\ UNCHANGED <<readonly, result, nwork, hostvars>>

\* the running callback returns r: control enters the finally block
CallbackReturn(r) ==
  /\ stack # <<>> /\ Top.phase = "callback"
  /\ stack' = [stack EXCEPT ![Depth].phase = "finally",
                            ![Depth].outcome = Returned(r)]
  /\ ev' = CallbackEvent
  /\ UNCHANGED <<source, readonly, result, nwork, nsteps, hostvars>>

\* the running callback throws e: control enters the finally block
CallbackThrow(e) ==
  /\ stack # <<>> /\ Top.phase = "callback"
  /\ stack' = [stack EXCEPT ![Depth].phase = "finally",
                            ![Depth].outcome = Thrown(e)]
  /\ ev' = CallbackEvent
  /\ UNCHANGED <<source, readonly, result, nwork, nsteps, hostvars>>

\* the failure of the callback is replaced by one of withProps' own
FinallyCompletionWraps(threw, tried) ==
  IF threw \/ tried.kind = "throw" THEN Thrown(TypeError) ELSE tried

\* the callback is called without `return`: its result is dropped
FinallyCompletionDropsResult(threw, tried) ==
  IF threw THEN Thrown(TypeError)
  ELSE IF tried.kind = "return" THEN Returned("undefined") ELSE tried

\* try { return callback(...) } finally { ... }: a throw of the finally block
\* replaces the completion of the try block, which otherwise stands
FinallyCompletion(threw, tried) ==
  IF threw THEN Thrown(TypeError) ELSE tried

\* lines 78-84: the finally block runs and withProps completes
Finally ==
  /\ stack # <<>> /\ Top.phase = "finally"
  /\ LET st == RestoreLoop(Top.overwrites, 1, readonly,
                   [src |-> source, orig |-> Top.originalValues,
                    threw |-> FALSE, written |-> {}])
         out == FinallyCompletion(st.threw, Top.outcome)
     IN /\ source' = st.src
        /\ Deliver(SubSeq(stack, 1, Depth - 1), out)
        /\ ev' = Event("exit", Depth, Top, out, st.threw,
                        Top.written \cup st.written)
  /\ UNCHANGED <<readonly, nwork, nsteps, hostvars>>

Next ==
  \/ \E w \in Overwrites : Call(w)
  \/ \E k \in Keys : CallbackWrite(k, CBV)
  \/ \E k \in Keys : CallbackDelete(k)
  \/ \E r \in Results : CallbackReturn(r)
  \/ \E e \in Errors : CallbackThrow(e)
  \/ Finally

Spec == Init /\ [][Next]_vars

----------------------------------------------------------------------------
(* Targets whose properties may reject writes: a non-writable property, a  *)
(* frozen object or a setter that throws.  The module is strict code, so    *)
(* such a write throws a TypeError.                                         *)

\* the running callback makes property k of the target reject writes
CallbackFreeze(k) ==
  /\ stack # <<>> /\ Top.phase = "callback"
  /\ nsteps < MaxSteps
  /\ nsteps' = nsteps + 1
  /\ k \notin readonly
  /\ readonly' = readonly \cup {k}
  /\ ev' = CallbackEvent
  /\ UNCHANGED <<source, stack, result, nwork, hostvars>>

NextRO ==
  \/ Next
  \/ \E k \in Keys : CallbackFreeze(k)

SpecRO == Init /\ [][NextRO]_vars

----------------------------------------------------------------------------
(* Asynchronous callbacks.  An async callback runs up to its first await,   *)
(* hands back a pending promise and continues later: its unit of work       *)
(* outlives the call of the callback.  A continuation runs only when the    *)
(* synchronous code has run to completion.                                  *)

\* the program, outside every withProps call, has taken a step
ProgramEvent == Event("program", 0, NoFrame, NoOutcome, FALSE, {})

\* the running callback suspends: callback(originalValues) of line 77 returns
\* the pending promise and control enters the finally block
CallbackSuspend ==
  /\ stack # <<>> /\ Top.phase = "callback"
  /\ task.state = "none"
  /\ task' = [state |-> "running", depth |-> Depth]
  /\ stack' = [stack EXCEPT ![Depth].phase = "finally",
                            ![Depth].outcome = Returned(Promise)]
  /\ ev' = CallbackEvent
  /\ UNCHANGED <<source, readonly, result, nwork, nsteps, realm, held,
                 history>>

\* the suspended unit of work stops: it completes, fails or is cancelled
TaskStop(how) ==
  /\ task.state = "running"
  /\ stack = <<>>
  /\ task' = [task EXCEPT !.state = how]
  /\ ev' = ProgramEvent
  /\ UNCHANGED <<source, readonly, stack, result, nwork, nsteps, realm, held,
                 history>>

NextAsync ==
  \/ Next
  \/ CallbackSuspend
  \/ \E how \in {"fulfilled", "rejected", "cancelled"} : TaskStop(how)

SpecAsync == Init /\ [][NextAsync]_vars

----------------------------------------------------------------------------
(* Callbacks that change the snapshot.  The callback is handed              *)
(* originalValues itself, the object the finally block reads.               *)

\* the running callback assigns a property of its snapshot
CallbackSnapshotWrite(k, v) ==
  /\ stack # <<>> /\ Top.phase = "callback"
  /\ nsteps < MaxSteps
  /\ nsteps' = nsteps + 1
  /\ Top.originalValues[k] # v
  /\ stack' = [stack EXCEPT ![Depth].originalValues = Put(@, k, v)]
  /\ ev' = CallbackEvent
  /\ UNCHANGED <<source, readonly, result, nwork, hostvars>>

\* the running callback deletes a property of its snapshot
CallbackSnapshotDelete(k) ==
  /\ stack # <<>> /\ Top.phase = "callback"
  /\ nsteps < MaxSteps
  /\ nsteps' = nsteps + 1
  /\ Top.originalValues[k] # ABSENT
  /\ stack' = [stack EXCEPT ![Depth].originalValues = Delete(@, k)]
  /\ ev' = CallbackEvent
  /\ UNCHANGED <<source, readonly, result, nwork, hostvars>>

NextSnapshot ==
  \/ Next
  \/ \E k \in Keys : CallbackSnapshotWrite(k, CBV)
  \/ \E k \in Keys : CallbackSnapshotDelete(k)

SpecSnapshot == Init /\ [][NextSnapshot]_vars

----------------------------------------------------------------------------
(* Programs that create symbols of their own and use them as replacement   *)
(* values.                                                                  *)

\* the program evaluates Symbol(description)
ProgramSymbol(description) ==
  /\ stack = <<>> /\ result.kind = "none"
  /\ realm.count < ModuleRealm.count + MaxSymbols
  /\ LET made == Symbol(realm, description)
     IN /\ realm' = made.realm
        /\ held' = held \cup {made.value}
  /\ ev' = ProgramEvent
  /\ UNCHANGED <<source, readonly, stack, result, nwork, nsteps, task,
                 history>>

\* the program evaluates Symbol.for(key)
ProgramSymbolFor(key) ==
  /\ stack = <<>> /\ result.kind = "none"
  /\ realm.registry[key] # NoSymbol
     \/ realm.count < ModuleRealm.count + MaxSymbols
  /\ LET got == SymbolFor(realm, key)
     IN /\ realm' = got.realm
        /\ held' = held \cup {got.value}
  /\ ev' = ProgramEvent
  /\ UNCHANGED <<source, readonly, stack, result, nwork, nsteps, task,
                 history>>

\* overwrite sets of one property whose replacement value is a symbol the
\* program holds
SymbolOverwrites == {<<<<k, s>>>> : k \in Keys, s \in held}

NextSymbols ==
  \/ \E d \in SymbolNames : ProgramSymbol(d)
  \/ \E key \in SymbolNames : ProgramSymbolFor(key)
  \/ \E w \in SymbolOverwrites : Call(w)
  \/ \E r \in Results : CallbackReturn(r)
  \/ \E e \in Errors : CallbackThrow(e)
  \/ Finally

SpecSymbols == Init /\ [][NextSymbols]_vars

----------------------------------------------------------------------------
(* Programs that call withProps several times, one call after the other,   *)
(* on the same target.                                                      *)

\* the outermost call has completed and the program, having received its
\* result or caught its error, goes on to its next call
ProgramContinue ==
  /\ stack = <<>> /\ result.kind # "none"
  /\ ev.op = "exit"
  /\ history.calls + 1 < MaxCalls
  /\ history' = [calls |-> history.calls + 1,
                 first |-> IF history.calls = 0 THEN ev.pre ELSE history.first,
                 named |-> history.named \cup KeySet(ev.overwrites),
                 ignored |-> history.ignored
                               \cup {k \in KeySet(ev.overwrites) :
                                       Lookup(ev.overwrites, k) = IGNORE},
                 stray |-> history.stray
                             \cup (ev.touched \ OwnKeys(ev.handed))]
  /\ result' = NoOutcome
  /\ nwork' = 0
  /\ nsteps' = 0
  /\ ev' = ProgramEvent
  /\ UNCHANGED <<source, readonly, stack, realm, held, task>>

NextSequential ==
  \/ \E w \in Overwrites : stack = <<>> /\ Call(w)
  \/ \E k \in Keys : CallbackWrite(k, CBV)
  \/ \E k \in Keys : CallbackDelete(k)
  \/ \E r \in Results : CallbackReturn(r)
  \/ \E e \in Errors : CallbackThrow(e)
  \/ Finally
  \/ ProgramContinue

SpecSequential == Init /\ [][NextSequential]_vars

----------------------------------------------------------------------------
(* Properties.                                                             *)

\* the keys of w proposing a replacement value, the IGNORE marker, the
\* REMEMBER marker
PlainKeys(w)      == {k \in KeySet(w) : Lookup(w, k) \notin {IGNORE, REMEMBER}}
IgnoredKeys(w)    == {k \in KeySet(w) : Lookup(w, k) = IGNORE}
RememberedKeys(w) == {k \in KeySet(w) : Lookup(w, k) = REMEMBER}

\* a callback has just been invoked; a withProps call has just completed
JustBegan  == ev.op = "begin"
JustExited == ev.op = "exit"

\* C1 (restore after success): when withProps, called with an overwrite set
\* of plain replacement values only, has just returned normally, every key of
\* the overwrite set reads on the target as it read immediately before the
\* call, whatever the callback wrote meanwhile.
C1_RestoreAfterSuccess ==
  (JustExited /\ ev.outcome.kind = "return"
     /\ PlainKeys(ev.overwrites) = KeySet(ev.overwrites))
  => \A k \in KeySet(ev.overwrites) : Get(source, k) = Get(ev.pre, k)

\* a call with two plain overwrites has returned after its callback wrote one
\* of the overwritten properties, and the overwrite had changed the target
C1_Witness ==
  /\ JustExited /\ ev.outcome.kind = "return"
  /\ Len(ev.overwrites) = 2
  /\ PlainKeys(ev.overwrites) = KeySet(ev.overwrites)
  /\ ev.touched \cap KeySet(ev.overwrites) # {}
  /\ \E k \in KeySet(ev.overwrites) : Get(ev.pre, k) # Lookup(ev.overwrites, k)

\* C2 (restore after failure): when the callback threw and no write of the
\* finally block failed, every overwritten key reads as before the call and
\* the caller observes the very completion the callback threw.
C2_RestoreAfterFailure ==
  (JustExited /\ ev.completion.kind = "throw" /\ ~ev.failed)
  => /\ \A k \in PlainKeys(ev.overwrites) : Get(source, k) = Get(ev.pre, k)
     /\ ev.outcome = ev.completion
     /\ stack = <<>> => result = ev.completion
     /\ stack # <<>> => (Top.phase = "finally" /\ Top.outcome = ev.completion)

\* the program catches E1 from a call that had changed the target, on a target
\* one property of which rejects writes
C2_Witness ==
  /\ JustExited /\ ev.completion = Thrown("E1") /\ ~ev.failed
  /\ stack = <<>> /\ result = Thrown("E1")
  /\ readonly # {}
  /\ \E k \in PlainKeys(ev.overwrites) : Get(ev.pre, k) # Lookup(ev.overwrites, k)

\* C3 (snapshot correctness): the snapshot handed to the callback has exactly
\* the keys of the overwrite set whose value is not IGNORE, each mapped to what
\* the target read for that key before withProps wrote anything.
C3_SnapshotCorrect ==
  JustBegan
  => /\ OwnKeys(ev.handed) = KeySet(ev.overwrites) \ IgnoredKeys(ev.overwrites)
     /\ \A k \in OwnKeys(ev.handed) : ev.handed[k] = Get(ev.pre, k)
     /\ Top.originalValues = ev.handed

\* a callback starts with one key ignored and one overwritten with a value
\* that differs from the original
C3_Witness ==
  /\ JustBegan
  /\ IgnoredKeys(ev.overwrites) # {}
  /\ \E k \in PlainKeys(ev.overwrites) : Get(ev.pre, k) # Lookup(ev.overwrites, k)

\* C4 (IGNORE is a no-op): a key marked IGNORE is written by withProps neither
\* in the overwrite phase nor in the finally block, and is no key of the
\* snapshot.
C4_IgnoreIsNoOp ==
  /\ JustBegan => \A k \in IgnoredKeys(ev.overwrites) :
                    /\ k \notin ev.written
                    /\ source[k] = ev.pre[k]
                    /\ ev.handed[k] = ABSENT
  /\ JustExited => \A k \in IgnoredKeys(ev.overwrites) : k \notin ev.written

\* the part of C4 the code keeps: nothing is written or recorded for an IGNORE
\* key before the callback runs
C4_IgnoreBeforeCallback ==
  JustBegan => \A k \in IgnoredKeys(ev.overwrites) :
                 /\ k \notin ev.written
                 /\ source[k] = ev.pre[k]
                 /\ ev.handed[k] = ABSENT

\* C5 (REMEMBER captures without mutating): when the callback starts, a key
\* marked REMEMBER has not been written, the target holds for it what it held
\* before the call (never the marker), and the snapshot maps it to that value.
C5_RememberCaptures ==
  JustBegan => \A k \in RememberedKeys(ev.overwrites) :
                 /\ k \notin ev.written
                 /\ source[k] = ev.pre[k]
                 /\ Get(source, k) # REMEMBER
                 /\ ev.handed[k] = Get(ev.pre, k)

\* a callback starts with a remembered key next to an overwritten one
C5_Witness ==
  /\ JustBegan
  /\ RememberedKeys(ev.overwrites) # {}
  /\ PlainKeys(ev.overwrites) # {}

\* C6 (overwrite in effect), as stated: when the callback starts, the target
\* reads, for every key of the snapshot, the value the overwrite set gives it.
C6_OverwriteInEffect ==
  JustBegan => \A k \in OwnKeys(ev.handed) :
                 Get(source, k) = Lookup(ev.overwrites, k)

\* C6 as amended: when the callback starts, the target reads, for every key of
\* the snapshot that the overwrite set does not mark REMEMBER, the value the
\* overwrite set gives it.
C6_OverwriteInEffectUnlessRemembered ==
  JustBegan => \A k \in OwnKeys(ev.handed) \ RememberedKeys(ev.overwrites) :
                 Get(source, k) = Lookup(ev.overwrites, k)

\* a callback starts on a target that lacked the overwritten property
C6_Witness ==
  /\ JustBegan
  /\ \E k \in PlainKeys(ev.overwrites) :
        /\ ev.pre[k] = ABSENT
        /\ source[k] = Lookup(ev.overwrites, k)
        /\ Get(ev.pre, k) # Lookup(ev.overwrites, k)

\* C7 (null and undefined are ordinary values): a replacement of null or
\* undefined is in the target when the callback starts and its key is in the
\* snapshot; an original null or undefined reads the same again when the call
\* has completed.
C7_NullishAreValues ==
  /\ JustBegan => \A k \in KeySet(ev.overwrites) :
                    Lookup(ev.overwrites, k) \in {NULL, UNDEFINED}
                    => /\ source[k] = Lookup(ev.overwrites, k)
                       /\ k \in OwnKeys(ev.handed)
  /\ JustExited => \A k \in PlainKeys(ev.overwrites) :
                     Get(ev.pre, k) \in {NULL, UNDEFINED}
                     => Get(source, k) = Get(ev.pre, k)

\* a call that overwrote an original null with undefined, or an original
\* undefined with null, has completed
C7_Witness ==
  /\ JustExited
  /\ \E k \in PlainKeys(ev.overwrites) :
        /\ ev.pre[k] \in {NULL, UNDEFINED}
        /\ Lookup(ev.overwrites, k) \in {NULL, UNDEFINED}
        /\ Lookup(ev.overwrites, k) # ev.pre[k]
        /\ source[k] = ev.pre[k]

\* the activation enclosing the one that has just begun or exited
Outer == stack[ev.depth - 1]

\* C8, first part: the snapshot of a nested call records what the outer
\* overwrite wrote (the outer callback having written nothing itself).
C8_InnerSnapshot ==
  (JustBegan /\ ev.depth = 2 /\ Outer.touched = {})
  => \A k \in OwnKeys(ev.handed) \cap PlainKeys(Outer.overwrites) :
       ev.handed[k] = Lookup(Outer.overwrites, k)

\* C8, second part: the inner call has completed when the outer one restores.
C8_InnerBeforeOuter ==
  (JustExited /\ ev.depth = 1) => stack = <<>>

\* C8, third part: when the inner call has returned or thrown, the target
\* holds the outer overwrite values (no callback having written anything).
C8_OuterValuesAfterInner ==
  (JustExited /\ ev.depth = 2 /\ stack[1].touched = {})
  => \A k \in PlainKeys(stack[1].overwrites) :
       Get(source, k) = Lookup(stack[1].overwrites, k)

\* C8, fourth part: when the outer call has returned or thrown, the target
\* holds its original values.
C8_OriginalAfterOuter ==
  (JustExited /\ ev.depth = 1)
  => \A k \in PlainKeys(ev.overwrites) : Get(source, k) = Get(ev.pre, k)

\* C8, fifth part: what the inner callback threw is what the enclosing
\* callback completes with and what the outermost caller observes.
C8_ErrorReachesCaller ==
  /\ (JustExited /\ ev.depth = 2 /\ ev.completion.kind = "throw")
     => (stack[1].phase = "finally" /\ stack[1].outcome = ev.completion)
  /\ (JustExited /\ ev.depth = 1 /\ ev.completion.kind = "throw")
     => result = ev.completion

\* C8 (nesting is stack-like): the five parts together.
C8_NestingIsStackLike ==
  /\ C8_InnerSnapshot
  /\ C8_InnerBeforeOuter
  /\ C8_OuterValuesAfterInner
  /\ C8_OriginalAfterOuter
  /\ C8_ErrorReachesCaller

C10_Frame ==
  /\ [](ev.op \in {"begin", "exit", "overwrite-threw"}
        => /\ ev.written \subseteq KeySet(ev.overwrites)
           /\ OwnKeys(ev.handed) \subseteq KeySet(ev.overwrites))
  /\ [][ev'.op \in {"begin", "exit", "overwrite-threw"}
        => \A k \in Keys \ KeySet(ev'.overwrites) : source'[k] = source[k]]_vars

\* a call that names one property has completed, and the other property
\* holds what its callback wrote there
C10_Witness ==
  /\ JustExited
  /\ KeySet(ev.overwrites) # {}
  /\ \E k \in Keys \ KeySet(ev.overwrites) :
        /\ k \in ev.touched
        /\ source[k] = CBV
        /\ ev.pre[k] # CBV

\* C11 (an empty overwrite set degenerates to a plain call): a call with no
\* overwrites hands its callback a snapshot without properties, its overwrite
\* phase and its finally block leave the target as they found it, and its
\* caller observes the very completion of the callback.
C11_EmptyIsPlainCall ==
  /\ []((JustBegan /\ ev.overwrites = <<>>)
        => (OwnKeys(ev.handed) = {} /\ ev.written = {} /\ source = ev.pre))
  /\ []((JustExited /\ ev.overwrites = <<>>)
        => /\ ev.written = {} /\ ~ev.failed
           /\ ev.outcome = ev.completion
           /\ ev.depth = 1 => result = ev.completion)
  /\ [][(ev'.op \in {"begin", "exit"} /\ ev'.overwrites = <<>>)
        => source' = source]_vars

\* a call with no overwrites has thrown what its callback threw, after the
\* callback wrote a property of the target, which still holds that value
C11_Witness ==
  /\ JustExited /\ ev.overwrites = <<>> /\ ev.depth = 1
  /\ result = Thrown("E2")
  /\ \E k \in ev.touched : source[k] = CBV /\ ev.pre[k] # CBV

\* C12 (absent keys are restored to absent): when a call that overwrote a
\* property the target did not have has completed, the target again has no
\* own property of that name.
C12_AbsentRestoredToAbsent ==
  JustExited => \A k \in PlainKeys(ev.overwrites) :
                  ev.pre[k] = ABSENT => source[k] = ABSENT

\* C13 (restoration waits for the unit of work to stop): when a call whose
\* callback handed back a pending promise has completed while the unit of
\* work the callback started is still running, the target still reads, for
\* every overwritten key no callback has written, the overwrite value.
C13_RestoreWhenWorkStops ==
  (JustExited /\ ev.completion = Returned(Promise) /\ task.state = "running")
  => \A k \in PlainKeys(ev.overwrites) \ ev.touched :
       Get(source, k) = Lookup(ev.overwrites, k)

\* C14 (best-effort restoration): when a write of the finally block has
\* failed, every other key of the snapshot, those later in key order too, has
\* been written back where the target accepts the write, and the caller
\* observes the failure of the restoration.
C14_BestEffortRestoration ==
  (JustExited /\ ev.failed)
  => /\ \A k \in OwnKeys(ev.handed) \ readonly : source[k] = ev.handed[k]
     /\ ev.outcome = Thrown(TypeError)

\* C15 (double failure policy): when the callback threw and a write of the
\* finally block threw too, the caller observes what the callback threw.
C15_CallbackFailureWins ==
  (JustExited /\ ev.completion.kind = "throw" /\ ev.failed)
  => /\ ev.outcome = ev.completion
     /\ ev.depth = 1 => result = ev.completion

C17_IgnoreIsRegisteredSymbol ==
  realm.registry["Ignore"] # NoSymbol => realm.registry["Ignore"] = IGNORE

\* C18 (a failure of the overwrite phase still restores): when a write of the
\* overwrite phase has thrown, the callback has not been invoked and every
\* property the call had already overwritten reads as before the call.
C18_OverwriteFailureRestores ==
  ev.op = "overwrite-threw"
  => /\ Len(stack) < ev.depth
     /\ \A k \in ev.written : Get(source, k) = Get(ev.pre, k)

\* C19 (restoration does not depend on what the callback does to the
\* snapshot): when a call has completed, whatever its callback assigned to or
\* deleted from the snapshot, every overwritten key reads as before the call
\* and no key marked IGNORE has been written.
C19_SnapshotMutationHarmless ==
  JustExited
  => /\ \A k \in PlainKeys(ev.overwrites) : Get(source, k) = Get(ev.pre, k)
     /\ \A k \in IgnoredKeys(ev.overwrites) : k \notin ev.written

\* the first half of C19 alone: the overwritten keys read as before the call
C19_OverwrittenKeysRestored ==
  JustExited
  => \A k \in PlainKeys(ev.overwrites) : Get(source, k) = Get(ev.pre, k)

\* C20 (restoration writes the recorded keys only): when a call has completed
\* without a failing write, the keys it has written are exactly the keys it
\* recorded in its snapshot during the overwrite phase; a key marked IGNORE,
\* which the overwrite phase neither writes nor records, is not among them,
\* whatever its name.
C20_RestoredKeysAreRecordedKeys ==
  (JustExited /\ ~ev.failed)
  => /\ ev.written = OwnKeys(ev.handed)
     /\ ev.written \cap IgnoredKeys(ev.overwrites) = {}

\* C21 (no cross-call persistence): when the program has completed one call
\* after the other on the same target, every key named by the overwrite set of
\* any of these calls (and not assigned or deleted by a callback whose call
\* did not record it) reads as before the first call; and the snapshot of each
\* call has only keys of that call's own overwrite set, each with what the
\* target read just before that call.
C21_NoCrossCallPersistence ==
  /\ (JustExited /\ ev.depth = 1)
     => LET first == IF history.calls = 0 THEN ev.pre ELSE history.first
            named == history.named \cup KeySet(ev.overwrites)
            stray == history.stray \cup (ev.touched \ OwnKeys(ev.handed))
        IN \A k \in named \ stray : Get(source, k) = Get(first, k)
  /\ JustBegan
     => /\ OwnKeys(ev.handed) \subseteq KeySet(ev.overwrites)
        /\ \A k \in OwnKeys(ev.handed) : ev.handed[k] = Get(ev.pre, k)

\* C21 for programs none of whose calls has marked an inherited name IGNORE
C21_UnlessInheritedNameIgnored ==
  /\ (JustExited /\ ev.depth = 1 /\ history.ignored \cap ProtoKeys = {}
        /\ IgnoredKeys(ev.overwrites) \cap ProtoKeys = {})
     => LET first == IF history.calls = 0 THEN ev.pre ELSE history.first
            named == history.named \cup KeySet(ev.overwrites)
            stray == history.stray \cup (ev.touched \ OwnKeys(ev.handed))
        IN \A k \in named \ stray : Get(source, k) = Get(first, k)
  /\ JustBegan
     => /\ OwnKeys(ev.handed) \subseteq KeySet(ev.overwrites)
        /\ \A k \in OwnKeys(ev.handed) : ev.handed[k] = Get(ev.pre, k)

\* C22 (unconditional re-creation): when a call has completed, every property
\* of its snapshot that a callback deleted from the target is an own property
\* of the target again and holds the value the snapshot recorded before the
\* call.
C22_DeletedPropertyRecreated ==
  (JustExited /\ ~ev.failed)
  => \A k \in ev.deleted \cap OwnKeys(ev.handed) :
       source[k] # ABSENT /\ source[k] = ev.handed[k]

\* a call has completed whose callback had deleted a property the target had
\* before the call and the call had overwritten, and the target holds the
\* original value again
C22_Witness ==
  /\ JustExited
  /\ \E k \in ev.deleted \cap PlainKeys(ev.overwrites) :
        /\ ev.pre[k] \notin {ABSENT, UNDEFINED}
        /\ ev.pre[k] # Lookup(ev.overwrites, k)
        /\ source[k] = ev.pre[k]

====
